---------------------------- MODULE Spec2Model ----------------------------
(***************************************************************************)
(* A model of the EOL checker (src/src/eol_checker.py): the version       *)
(* comparator, the endoflife.date parser, the criticality classifier and  *)
(* the batch loop check_multiple_tools.                                   *)
(*                                                                         *)
(* Python strings are TLA+ strings (TLC evaluates Len, Head, Tail, SubSeq  *)
(* and \o on them).  A Python value whose type varies (a JSON field that   *)
(* may be absent, a boolean or a string; days_until_eol, an int or 'N/A')  *)
(* is a record [kind, b, s, n] so that values of different types compare.  *)
(* A dict whose keys vary (EOLInfo) is a record whose DOMAIN varies.       *)
(***************************************************************************)
EXTENDS Integers, Sequences, FiniteSets, TLC

(***************************************************************************)
(* Bounds of the model.                                                    *)
(***************************************************************************)
\* longest dataset (number of release cycles in one API response)
MaxCycles == 2
\* the clock takes the values 0..MaxNow, in half days after midnight of EpochDate
MaxNow == 2
\* longest input list of check_multiple_tools
MaxTools == 2
\* the runs of the issue scripts
MaxRuns == 3

(***************************************************************************)
(* Python values.                                                          *)
(***************************************************************************)
PyNone == [kind |-> "none", b |-> FALSE, s |-> "", n |-> 0]
PyBool(x) == [kind |-> "bool", b |-> x, s |-> "", n |-> 0]
PyStr(x) == [kind |-> "str", b |-> FALSE, s |-> x, n |-> 0]
PyInt(x) == [kind |-> "int", b |-> FALSE, s |-> "", n |-> x]

\* bool(v): None, False, '' and 0 are falsy
Truthy(v) ==
    CASE v.kind = "none" -> FALSE
      [] v.kind = "bool" -> v.b
      [] v.kind = "str" -> v.s # ""
      [] v.kind = "int" -> v.n # 0

(***************************************************************************)
(* Strings.                                                                *)
(***************************************************************************)
CharAt(s, i) == SubSeq(s, i, i)

Digits == "0123456789"
UpperCase == "ABCDEFGHIJKLMNOPQRSTUVWXYZ"
LowerCase == "abcdefghijklmnopqrstuvwxyz"

\* position of character c in string s, 0 when absent
IndexOf(c, s) ==
    IF \E i \in 1..Len(s) : CharAt(s, i) = c
    THEN CHOOSE i \in 1..Len(s) :
            CharAt(s, i) = c /\ \A j \in 1..(i - 1) : CharAt(s, j) # c
    ELSE 0

IsDigit(c) == IndexOf(c, Digits) # 0
DigitVal(c) == IndexOf(c, Digits) - 1
AllDigits(s) == Len(s) > 0 /\ \A i \in 1..Len(s) : IsDigit(CharAt(s, i))

\* int(s) for a string of decimal digits
RECURSIVE ToInt(_)
ToInt(s) ==
    IF s = "" THEN 0
    ELSE 10 * ToInt(SubSeq(s, 1, Len(s) - 1)) + DigitVal(CharAt(s, Len(s)))

\* str.lower()
LowerChar(c) ==
    IF IndexOf(c, UpperCase) # 0
    THEN CharAt(LowerCase, IndexOf(c, UpperCase))
    ELSE c

RECURSIVE Lower(_)
Lower(s) == IF s = "" THEN "" ELSE LowerChar(Head(s)) \o Lower(Tail(s))

\* re.sub(r'[^\d.]', '', s): keep the digits and the dots
RECURSIVE KeepDigitsAndDots(_)
KeepDigitsAndDots(s) ==
    IF s = "" THEN ""
    ELSE (IF IsDigit(Head(s)) \/ Head(s) = "." THEN Head(s) ELSE "")
            \o KeepDigitsAndDots(Tail(s))

\* s.replace(c, '', 1): drop the first occurrence of c
RemoveFirst(s, c) ==
    LET i == IndexOf(c, s)
    IN  IF i = 0 THEN s ELSE SubSeq(s, 1, i - 1) \o SubSeq(s, i + 1, Len(s))

\* s.split(sep) for a one-character separator: the sequence of fields
RECURSIVE Split(_, _)
SplitAt(s, sep, i) ==
    IF i = 0 THEN <<s>>
    ELSE <<SubSeq(s, 1, i - 1)>> \o Split(SubSeq(s, i + 1, Len(s)), sep)

Split(s, sep) == SplitAt(s, sep, IndexOf(sep, s))

(***************************************************************************)
(* packaging.version.parse, on version strings made of an optional leading *)
(* "v", digits, dots and letters outside PEP 440's suffix vocabulary: such *)
(* a string is a valid version iff it is v?N(.N)*, and InvalidVersion is   *)
(* raised otherwise.  A valid version is its release tuple with the        *)
(* trailing zeros dropped, as in Version._key.                             *)
(***************************************************************************)
\* a variant that compares the release tuples as they are written
StripTrailingZeros_Kept(t) == t

RECURSIVE StripTrailingZeros(_)
StripTrailingZeros(t) ==
    IF Len(t) > 0 /\ t[Len(t)] = 0
    THEN StripTrailingZeros(SubSeq(t, 1, Len(t) - 1))
    ELSE t

\* the release segment, from its dot-separated fields
ParseRelease(fields) ==
    IF \A i \in 1..Len(fields) : AllDigits(fields[i])
    THEN [ok |-> TRUE,
          key |-> StripTrailingZeros([i \in 1..Len(fields) |-> ToInt(fields[i])])]
    ELSE [ok |-> FALSE, key |-> <<>>]

VersionParse(s) ==
    ParseRelease(Split(IF s # "" /\ Head(s) \in {"v", "V"} THEN Tail(s) ELSE s, "."))

\* the order of Python tuples of ints: -1, 0 or 1
RECURSIVE TupleCmp(_, _)
TupleCmp(a, b) ==
    IF a = <<>> /\ b = <<>> THEN 0
    ELSE IF a = <<>> THEN -1
    ELSE IF b = <<>> THEN 1
    ELSE IF Head(a) < Head(b) THEN -1
    ELSE IF Head(a) > Head(b) THEN 1
    ELSE TupleCmp(Tail(a), Tail(b))

RECURSIVE Pow10(_)
Pow10(k) == IF k = 0 THEN 1 ELSE 10 * Pow10(k - 1)

\* float(s) for a string of digits and dots, from its dot-separated fields:
\* ValueError unless it has at most one dot and at least one digit; the value
\* is num / 10^exp
FloatOfFields(parts) ==
    IF Len(parts) = 1 /\ parts[1] # ""
    THEN [ok |-> TRUE, num |-> ToInt(parts[1]), exp |-> 0]
    ELSE IF Len(parts) = 2 /\ parts[1] \o parts[2] # ""
    THEN [ok |-> TRUE, num |-> ToInt(parts[1] \o parts[2]), exp |-> Len(parts[2])]
    ELSE [ok |-> FALSE, num |-> 0, exp |-> 0]

FloatParse(s) == FloatOfFields(Split(s, "."))

\* lines 79-83: strip to digits and dots, drop the first dot, float()
FallbackNumber(v_str) == FloatParse(RemoveFirst(KeepDigitsAndDots(v_str), "."))

\* a variant of lines 85-90 that returns the difference of the two numbers
OrderOf_Difference(l, r) == l - r

\* lines 85-90, on v1_num = n1 / 10^e1 and v2_num = n2 / 10^e2
OrderOf(l, r) == IF l = r THEN 0 ELSE IF l > r THEN 1 ELSE -1

\* lines 77-92: the numeric comparison, 0 when float() raises
NumericCompare(v1_num, v2_num) ==
    IF v1_num.ok /\ v2_num.ok
    THEN OrderOf(v1_num.num * Pow10(v2_num.exp), v2_num.num * Pow10(v1_num.exp))
    ELSE 0

\* lines 72-92: the except branch of _compare_versions, on the lowered strings
FallbackCompare(v1_str, v2_str) ==
    IF v1_str = v2_str THEN 0
    ELSE NumericCompare(FallbackNumber(v1_str), FallbackNumber(v2_str))

\* lines 60-92, on the results of version.parse
CompareParsed(v1, v2, v1_parsed, v2_parsed) ==
    IF v1_parsed.ok /\ v2_parsed.ok
    THEN TupleCmp(v1_parsed.key, v2_parsed.key)
    ELSE FallbackCompare(Lower(v1), Lower(v2))

_compare_versions(v1, v2) ==
    IF v1 = "Unknown" \/ v2 = "Unknown" THEN 0
    ELSE CompareParsed(v1, v2, VersionParse(v1), VersionParse(v2))

(***************************************************************************)
(* datetime: a date is its proleptic Gregorian ordinal, a datetime is      *)
(* [ord, tod] with tod the time of day in half days after midnight.        *)
(***************************************************************************)
IsLeap(y) == (y % 4 = 0) /\ ((y % 100 # 0) \/ (y % 400 = 0))

DaysInMonth(y, m) ==
    IF m = 2 THEN (IF IsLeap(y) THEN 29 ELSE 28)
    ELSE IF m \in {4, 6, 9, 11} THEN 30
    ELSE 31

RECURSIVE DaysBeforeMonth(_, _)
DaysBeforeMonth(y, m) ==
    IF m = 1 THEN 0 ELSE DaysBeforeMonth(y, m - 1) + DaysInMonth(y, m - 1)

\* date(y, m, d).toordinal()
ToOrdinal(y, m, d) ==
    (y - 1) * 365 + ((y - 1) \div 4) - ((y - 1) \div 100) + ((y - 1) \div 400)
        + DaysBeforeMonth(y, m) + d

NoDate == [ok |-> FALSE, ord |-> 0, tod |-> 0]

\* datetime(y, m, d): ValueError for a month or a day that does not exist
MakeDate(y, m, d) ==
    IF y >= 1 /\ m \in 1..12 /\ d >= 1 /\ d <= DaysInMonth(y, m)
    THEN [ok |-> TRUE, ord |-> ToOrdinal(y, m, d), tod |-> 0]
    ELSE NoDate

\* the fields of '%Y-%m-%d': four digits, then one or two digits twice
DateOfFields(f) ==
    IF /\ Len(f) = 3
       /\ Len(f[1]) = 4 /\ AllDigits(f[1])
       /\ Len(f[2]) \in {1, 2} /\ AllDigits(f[2])
       /\ Len(f[3]) \in {1, 2} /\ AllDigits(f[3])
    THEN MakeDate(ToInt(f[1]), ToInt(f[2]), ToInt(f[3]))
    ELSE NoDate

\* datetime.strptime(s, '%Y-%m-%d'): the datetime at midnight of the date,
\* ok = FALSE for ValueError
StrpTime(s) == DateOfFields(Split(s, "-"))

\* a < b on datetimes
DtLess(a, b) == a.ord < b.ord \/ (a.ord = b.ord /\ a.tod < b.tod)

\* a variant of (a - b).days with the operands exchanged: (b - a).days
DeltaDays_Exchanged(a, b) ==
    IF b.tod >= a.tod THEN b.ord - a.ord ELSE b.ord - a.ord - 1

\* (a - b).days: timedelta normalises to 0 <= seconds < one day, so the day
\* count is the floor of the difference
DeltaDays(a, b) == IF a.tod >= b.tod THEN a.ord - b.ord ELSE a.ord - b.ord - 1

(***************************************************************************)
(* EOLChecker._parse_endoflife_data.  A dataset is [islist, items]: the    *)
(* decoded JSON body and, when it is a list, its release cycles.  A        *)
(* release cycle is [cycle, latest, releaseDate, eol] with cycle a string  *)
(* and the other fields Python values (PyNone for an absent key).          *)
(* datetime.now() is the parameter now.                                    *)
(***************************************************************************)
\* a variant of lines 108-111 without the break: the cycle of the last
\* release flagged latest
LatestByFlag_NoBreak(items) ==
    IF \A i \in 1..Len(items) : ~Truthy(items[i].latest) THEN "Unknown"
    ELSE items[CHOOSE i \in 1..Len(items) :
                  /\ Truthy(items[i].latest)
                  /\ \A j \in (i + 1)..Len(items) : ~Truthy(items[j].latest)].cycle

\* lines 108-111: the cycle of the first release flagged latest
RECURSIVE LatestByFlag(_)
LatestByFlag(items) ==
    IF items = <<>> THEN "Unknown"
    ELSE IF Truthy(Head(items).latest) THEN Head(items).cycle
    ELSE LatestByFlag(Tail(items))

\* lines 115-124: the loop over the releases, carrying latest_release_date
\* (best, which is NoDate for None) and latest_version
RECURSIVE LatestByDate(_, _, _)
\* a variant of lines 116-124 with >= for > at line 120: the last release
\* of the newest date
LatestByDateStep_LastOnTie(items, best, latest_version, release_date) ==
    IF Truthy(Head(items).releaseDate) /\ release_date.ok
          /\ (~best.ok \/ ~DtLess(release_date, best))
    THEN LatestByDate(Tail(items), release_date, Head(items).cycle)
    ELSE LatestByDate(Tail(items), best, latest_version)

\* lines 116-124: one release, release_date being what strptime gives for it
LatestByDateStep(items, best, latest_version, release_date) ==
    IF Truthy(Head(items).releaseDate) /\ release_date.ok
          /\ (~best.ok \/ DtLess(best, release_date))
    THEN LatestByDate(Tail(items), release_date, Head(items).cycle)
    ELSE LatestByDate(Tail(items), best, latest_version)

LatestByDate(items, best, latest_version) ==
    IF items = <<>> THEN latest_version
    ELSE LatestByDateStep(items, best, latest_version,
                          StrpTime(Head(items).releaseDate.s))

\* a variant of lines 113-124 without the second loop
LatestOrByDate_FlagOnly(flagged, items) == flagged

\* lines 113-124: the second loop runs when the first one found no flag
LatestOrByDate(flagged, items) ==
    IF flagged = "Unknown" THEN LatestByDate(items, NoDate, "Unknown") ELSE flagged

\* lines 104-124
FindLatest(items) == LatestOrByDate(LatestByFlag(items), items)

\* the least element of a set of indexes, 0 for the empty set
FirstOf(hits) == IF hits = {} THEN 0 ELSE CHOOSE i \in hits : \A j \in hits : i <= j

\* a variant of the loops of lines 141 and 185 without the return: the index
\* of the last release whose cycle compares equal to current_version
FirstMatch_NoReturn(items, current_version) ==
    IF \A i \in 1..Len(items) : _compare_versions(items[i].cycle, current_version) # 0
    THEN 0
    ELSE CHOOSE i \in 1..Len(items) :
            /\ _compare_versions(items[i].cycle, current_version) = 0
            /\ \A j \in (i + 1)..Len(items) :
                  _compare_versions(items[j].cycle, current_version) # 0

\* lines 141-143 and 185-189: the index of the first release whose cycle
\* compares equal to current_version, 0 when the loop ends without one
FirstMatch(items, current_version) ==
    FirstOf({i \in 1..Len(items) :
                _compare_versions(items[i].cycle, current_version) = 0})

\* a variant of line 146 and line 192 that tests eol_date is True
IsTrueLike_BoolOnly(eol_date) == eol_date.kind = "bool" /\ eol_date.b

\* line 146 and line 192: eol_date in [True, 'true', 'True']
IsTrueLike(eol_date) ==
    \/ eol_date.kind = "bool" /\ eol_date.b
    \/ eol_date.kind = "int" /\ eol_date.n = 1
    \/ eol_date.kind = "str" /\ eol_date.s \in {"true", "True"}

\* lines 154-169 and 200-215: the try block once strptime has returned eol_dt
DatedInfo(eol_date, eol_dt, today, latest_version) ==
    IF DtLess(eol_dt, today)
    THEN [status |-> "EOL", eol_date |-> eol_date.s, latest_version |-> latest_version]
    ELSE [status |-> "Supported", eol_date |-> eol_date.s,
          days_until_eol |-> DeltaDays(eol_dt, today),
          latest_version |-> latest_version]

\* lines 144-182: the matched release when current_version is latest_version;
\* eol_dt is what strptime gives for eol_date, not ok when it raises
InfoAtLatest(eol_date, eol_dt, latest_version, today) ==
    IF ~Truthy(eol_date)
    THEN [status |-> "Supported", eol_date |-> "Not specified (latest version)",
          latest_version |-> latest_version]
    ELSE IF IsTrueLike(eol_date)
    THEN [status |-> "EOL", eol_date |-> "Already EOL", latest_version |-> latest_version]
    ELSE IF eol_date.kind = "str" /\ eol_dt.ok
    THEN DatedInfo(eol_date, eol_dt, today, latest_version)
    ELSE [status |-> "Supported", eol_date |-> eol_date.s,
          latest_version |-> latest_version]

\* a variant of lines 190-228 whose except clause is that of lines 170-175:
\* Supported for a string strptime rejects
InfoAtScan_SupportedOnError(eol_date, eol_dt, latest_version, today) ==
    IF ~Truthy(eol_date)
    THEN [status |-> "Supported", eol_date |-> "Not specified",
          latest_version |-> latest_version]
    ELSE IF IsTrueLike(eol_date)
    THEN [status |-> "EOL", eol_date |-> "Already EOL", latest_version |-> latest_version]
    ELSE IF eol_date.kind = "str" /\ eol_dt.ok
    THEN DatedInfo(eol_date, eol_dt, today, latest_version)
    ELSE [status |-> "Supported", eol_date |-> eol_date.s,
          latest_version |-> latest_version]

\* a variant of lines 190-228 without the test of line 192: a true-like
\* eol goes to strptime
InfoAtScan_NoTrueLike(eol_date, eol_dt, latest_version, today) ==
    IF ~Truthy(eol_date)
    THEN [status |-> "Supported", eol_date |-> "Not specified",
          latest_version |-> latest_version]
    ELSE IF eol_date.kind = "str" /\ eol_dt.ok
    THEN DatedInfo(eol_date, eol_dt, today, latest_version)
    ELSE [status |-> "Unknown", eol_date |-> eol_date.s,
          latest_version |-> latest_version]

\* lines 190-228: the matched release in the scan for the specific version
InfoAtScan(eol_date, eol_dt, latest_version, today) ==
    IF ~Truthy(eol_date)
    THEN [status |-> "Supported", eol_date |-> "Not specified",
          latest_version |-> latest_version]
    ELSE IF IsTrueLike(eol_date)
    THEN [status |-> "EOL", eol_date |-> "Already EOL", latest_version |-> latest_version]
    ELSE IF eol_date.kind = "str" /\ eol_dt.ok
    THEN DatedInfo(eol_date, eol_dt, today, latest_version)
    ELSE [status |-> "Unknown", eol_date |-> eol_date.s,
          latest_version |-> latest_version]

\* a variant of lines 126-129 that tests for -1: current_version is older
\* than latest_version
CurrentAboveLatest_Below(current_version, latest_version) ==
    /\ latest_version # "Unknown"
    /\ current_version # "Unknown"
    /\ _compare_versions(current_version, latest_version) = -1

\* lines 126-129: current_version is newer than latest_version
CurrentAboveLatest(current_version, latest_version) ==
    /\ latest_version # "Unknown"
    /\ current_version # "Unknown"
    /\ _compare_versions(current_version, latest_version) = 1

\* a variant of lines 136-139 without the tests of line 137
CurrentIsLatest_Unguarded(current_version, latest_version) ==
    _compare_versions(current_version, latest_version) = 0

\* lines 136-139: current_version is latest_version
CurrentIsLatest(current_version, latest_version) ==
    /\ latest_version # "Unknown"
    /\ current_version # "Unknown"
    /\ _compare_versions(current_version, latest_version) = 0

\* lines 136-235 with the outcome of the loops of lines 141 and 185: m is the
\* index of the first release that compares equal to current_version.  When
\* current_version is latest_version the loop of line 141 returns at m, and
\* when it finds no release neither does the loop of line 185.
MatchedInfo(items, m, is_latest, latest_version, now) ==
    IF m = 0
    THEN [status |-> "Unknown", eol_date |-> "Version not found",
          latest_version |-> latest_version]
    ELSE IF is_latest
    THEN InfoAtLatest(items[m].eol, StrpTime(items[m].eol.s), latest_version, now)
    ELSE InfoAtScan(items[m].eol, StrpTime(items[m].eol.s), latest_version, now)

\* An element of the decoded list that is no JSON object (a string, a
\* number) is a Python value and has no get(): release.get raises
\* AttributeError, which _parse_endoflife_data does not catch.
IsDict(release) == "kind" \notin DOMAIN release

AttributeError == [exception |-> "AttributeError"]

\* the releases before the first element that is no dict
RECURSIVE DictPrefix(_)
DictPrefix(items) ==
    IF items = <<>> \/ ~IsDict(Head(items)) THEN <<>>
    ELSE <<Head(items)>> \o DictPrefix(Tail(items))

\* lines 108-111: release.get raises at an element that is no dict, unless
\* the loop has left at a release flagged latest before it
RECURSIVE FlagLoopRaises(_)
FlagLoopRaises(items) ==
    IF items = <<>> THEN FALSE
    ELSE IF ~IsDict(Head(items)) THEN TRUE
    ELSE IF Truthy(Head(items).latest) THEN FALSE
    ELSE FlagLoopRaises(Tail(items))

\* lines 141-143 and 185-189: release.get raises at an element that is no
\* dict, unless the loop has returned at a matching release before it
RECURSIVE ScanRaises(_, _)
ScanRaises(items, current_version) ==
    IF items = <<>> THEN FALSE
    ELSE IF ~IsDict(Head(items)) THEN TRUE
    ELSE IF _compare_versions(Head(items).cycle, current_version) = 0 THEN FALSE
    ELSE ScanRaises(Tail(items), current_version)

\* lines 136-235 on the releases the loops reach
ScanRecords(records, current_version, latest_version, now) ==
    MatchedInfo(records, FirstMatch(records, current_version),
                CurrentIsLatest(current_version, latest_version),
                latest_version, now)

\* lines 126-235, latest_version being found
ParseWithLatest(items, current_version, latest_version, now) ==
    IF CurrentAboveLatest(current_version, latest_version)
    THEN [status |-> "Unknown", eol_date |-> "Version not found (current > latest)",
          latest_version |-> latest_version]
    ELSE IF ScanRaises(items, current_version)
    THEN AttributeError
    ELSE ScanRecords(DictPrefix(items), current_version, latest_version, now)

\* lines 94-235: an EOLInfo, or AttributeError when the call raises
_parse_endoflife_data(data, current_version, tool_name, now) ==
    IF ~data.islist \/ data.items = <<>>
    THEN [status |-> "Unknown", eol_date |-> "No data available",
          latest_version |-> "Unknown"]
    ELSE IF FlagLoopRaises(data.items)
    THEN AttributeError
    ELSE ParseWithLatest(data.items, current_version,
                         FindLatest(DictPrefix(data.items)), now)

(***************************************************************************)
(* EOLChecker._calculate_criticality.  days_until_eol is a Python value:   *)
(* an int, or the string 'N/A'.                                            *)
(***************************************************************************)
\* a variant of lines 248-259 with < for <= at 30 and 90
CriticalityByDays_Strict(days_until_eol) ==
    IF days_until_eol.kind = "int"
    THEN (IF days_until_eol.n <= 0 THEN "high"
          ELSE IF days_until_eol.n < 30 THEN "high"
          ELSE IF days_until_eol.n < 90 THEN "medium"
          ELSE "low")
    ELSE "medium"

\* a variant of lines 248-259 whose else of line 257 returns 'low'
CriticalityByDays_LowWithoutDays(days_until_eol) ==
    IF days_until_eol.kind = "int"
    THEN (IF days_until_eol.n <= 0 THEN "high"
          ELSE IF days_until_eol.n <= 30 THEN "high"
          ELSE IF days_until_eol.n <= 90 THEN "medium"
          ELSE "low")
    ELSE "low"

\* lines 248-259
CriticalityByDays(days_until_eol) ==
    IF days_until_eol.kind = "int"
    THEN (IF days_until_eol.n <= 0 THEN "high"
          ELSE IF days_until_eol.n <= 30 THEN "high"
          ELSE IF days_until_eol.n <= 90 THEN "medium"
          ELSE "low")
    ELSE "medium"

\* a variant of lines 237-261 with lines 248-259 before lines 243-246: the
\* day count decides when there is one
_calculate_criticality_DaysFirst(eol_status, eol_date, days_until_eol, latest_version, current_version) ==
    IF eol_status = "EOL" THEN "high"
    ELSE IF eol_status = "Supported"
    THEN IF days_until_eol.kind = "int"
         THEN CriticalityByDays(days_until_eol)
         ELSE IF /\ eol_date \in {"Not specified (latest version)", "Not specified"}
                 /\ latest_version # "Unknown"
                 /\ _compare_versions(current_version, latest_version) = 0
         THEN "low"
         ELSE "medium"
    ELSE "medium"

\* a variant of lines 237-261 without lines 239-240
_calculate_criticality_NoEol(eol_status, eol_date, days_until_eol, latest_version, current_version) ==
    IF eol_status = "Supported"
    THEN IF /\ eol_date \in {"Not specified (latest version)", "Not specified"}
            /\ latest_version # "Unknown"
            /\ _compare_versions(current_version, latest_version) = 0
         THEN "low"
         ELSE CriticalityByDays(days_until_eol)
    ELSE "medium"

\* lines 237-261
_calculate_criticality(eol_status, eol_date, days_until_eol, latest_version, current_version) ==
    IF eol_status = "EOL" THEN "high"
    ELSE IF eol_status = "Supported"
    THEN IF /\ eol_date \in {"Not specified (latest version)", "Not specified"}
            /\ latest_version # "Unknown"
            /\ _compare_versions(current_version, latest_version) = 0
         THEN "low"
         ELSE CriticalityByDays(days_until_eol)
    ELSE "medium"

(***************************************************************************)
(* EOLChecker.fetch_eol_data and the loop body of check_multiple_tools.    *)
(* A response is [error, status_code, json]: error stands for session.get  *)
(* or response.json() raising (no connection, a timeout, a body that is    *)
(* not JSON); json is the decoded body.                                    *)
(***************************************************************************)
RECURSIVE RemoveAll(_, _)
RemoveAll(s, c) ==
    IF s = "" THEN ""
    ELSE (IF Head(s) = c THEN "" ELSE Head(s)) \o RemoveAll(Tail(s), c)

\* line 24: tool_name.lower().replace(' ', '').replace('.', '')
ApiToolName(tool_name) == RemoveAll(RemoveAll(Lower(tool_name), " "), ".")

\* lines 30 and 35-37: an exception of _parse_endoflife_data is caught
CatchParse(parsed) ==
    IF parsed = AttributeError
    THEN [status |-> "Unknown", eol_date |-> "Check failed", latest_version |-> "Unknown"]
    ELSE parsed

\* a variant of lines 20-37 whose else of line 31 returns the EOLInfo of
\* line 37
fetch_eol_data_OneMessage(tool_name, current_version, response, now) ==
    IF response.error \/ response.status_code # 200
    THEN [status |-> "Unknown", eol_date |-> "Check failed", latest_version |-> "Unknown"]
    ELSE CatchParse(_parse_endoflife_data(response.json, current_version, tool_name, now))

\* lines 20-37
fetch_eol_data(tool_name, current_version, response, now) ==
    IF response.error
    THEN [status |-> "Unknown", eol_date |-> "Check failed", latest_version |-> "Unknown"]
    ELSE IF response.status_code = 200
    THEN CatchParse(_parse_endoflife_data(response.json, current_version, tool_name, now))
    ELSE [status |-> "Unknown", eol_date |-> "API not available",
          latest_version |-> "Unknown"]

\* eol_info.get('days_until_eol', 'N/A')
DaysOrNA(eol_info) ==
    IF "days_until_eol" \in DOMAIN eol_info
    THEN PyInt(eol_info.days_until_eol)
    ELSE PyStr("N/A")

\* a variant of lines 273-296 whose loop of lines 294-296 has no test: the
\* fields of the input record overwrite the computed ones
CheckResult_InputWins(tool, eol_info, now) ==
    tool @@ [tool_name |-> tool.name,
             current_version |-> tool.version,
             eol_status |-> eol_info.status,
             eol_date |-> eol_info.eol_date,
             days_until_eol |-> DaysOrNA(eol_info),
             latest_version |-> eol_info.latest_version,
             criticality |-> _calculate_criticality(eol_info.status, eol_info.eol_date,
                                                    DaysOrNA(eol_info),
                                                    eol_info.latest_version, tool.version),
             last_checked |-> now]

\* lines 273-296: the CheckResult of one tool; the keys of the input record
\* that the result does not have yet are copied to it (f @@ g keeps f where
\* both are defined)
CheckResult(tool, eol_info, now) ==
    [tool_name |-> tool.name,
     current_version |-> tool.version,
     eol_status |-> eol_info.status,
     eol_date |-> eol_info.eol_date,
     days_until_eol |-> DaysOrNA(eol_info),
     latest_version |-> eol_info.latest_version,
     criticality |-> _calculate_criticality(eol_info.status, eol_info.eol_date,
                                            DaysOrNA(eol_info),
                                            eol_info.latest_version, tool.version),
     last_checked |-> now] @@ tool

(***************************************************************************)
(* The inputs the model draws from.                                        *)
(***************************************************************************)
\* the clock: tick t is t half days after midnight of EpochDate, so an even
\* tick is exactly midnight and an odd one is noon
EpochDate == "2024-02-29"
Clock(t) == [ok |-> TRUE, ord |-> StrpTime(EpochDate).ord + (t \div 2), tod |-> t % 2]
\* the instants _parse_endoflife_data is evaluated at: midnight and noon of
\* EpochDate, and midnight of the next day
Times == {Clock(0), Clock(1), Clock(2)}

\* current versions: the lower cycle, the same version spelt differently, the
\* higher cycle, and the sentinel load_tools_from_json gives a missing version
CurrentVersions == {"1.0", "1.0.0", "9.9", "Unknown"}

\* eol fields: absent, false, true, 'True', the epoch day, two days after
\* it, and a string that is no date (February has no 30th)
EolValues ==
    {PyNone, PyBool(FALSE), PyBool(TRUE), PyStr("True"),
     PyStr("2024-02-29"), PyStr("2024-03-02"), PyStr("2024-02-30")}

ReleaseCycles ==
    [cycle : {"1.0", "9.9"}, latest : {PyNone, PyBool(TRUE)},
     releaseDate : {PyNone}, eol : EolValues]

\* the sequences over S of length 0..n
RECURSIVE SeqsUpTo(_, _)
SeqsUpTo(S, n) ==
    IF n = 0 THEN {<<>>}
    ELSE SeqsUpTo(S, n - 1)
            \cup {Append(q, x) : q \in {r \in SeqsUpTo(S, n - 1) : Len(r) = n - 1}, x \in S}

NoBody == [islist |-> FALSE, items |-> <<>>]

\* decoded response bodies: every list of at most MaxCycles release cycles,
\* and a body that is no list
Datasets ==
    {[islist |-> TRUE, items |-> q] : q \in SeqsUpTo(ReleaseCycles, MaxCycles)}
        \cup {NoBody}

\* datasets whose cycles vary in releaseDate instead of eol: absent, two
\* dates, and a string that is no date (2023 has no 29 February)
ReleaseDates ==
    {PyNone, PyStr("2023-06-01"), PyStr("2024-01-15"), PyStr("2023-02-29")}

DatedCycles ==
    [cycle : {"1.0", "9.9"}, latest : {PyNone, PyBool(TRUE)},
     releaseDate : ReleaseDates, eol : {PyNone}]

DatedDatasets ==
    {[islist |-> TRUE, items |-> q] : q \in SeqsUpTo(DatedCycles, MaxCycles)}

\* the JSON object {}: every get gives its default.  Its cycle is read at
\* lines 142 and 186 only, where the default is ''.
EmptyDict == [cycle |-> "", latest |-> PyNone, releaseDate |-> PyNone, eol |-> PyNone]

\* elements of a decoded list that are no release cycles: a string, a number
\* and the object {}
MalformedElements == {PyStr("1.0"), PyInt(7), EmptyDict}

\* release cycles that stand next to them: "1.0", flagged latest or not
PlainCycles ==
    [cycle : {"1.0"}, latest : {PyNone, PyBool(TRUE)}, releaseDate : {PyNone},
     eol : {PyNone}]

\* the empty and the malformed bodies: no list, the empty list, and every
\* list of at most MaxCycles elements with an element that is no release cycle
MalformedDatasets ==
    {NoBody, [islist |-> TRUE, items |-> <<>>]}
        \cup {[islist |-> TRUE, items |-> q] :
                 q \in {r \in SeqsUpTo(MalformedElements \cup PlainCycles, MaxCycles) :
                           \E i \in 1..Len(r) : r[i] \in MalformedElements}}

\* the input records of check_multiple_tools: one with an extra field that
\* has the name of a computed one, and one with an extra field of its own and
\* the version load_tools_from_json gives an entry without a version
ToolSpecs ==
    {[name |-> "Python", version |-> "1.0", criticality |-> "low"],
     [name |-> "Node.js", version |-> "Unknown", owner |-> "ops"]}

\* the bodies the API answers with in a batch: the empty list; a cycle "1.0"
\* flagged latest with an absent eol, two eol dates and a string that is no
\* date; a cycle "9.9" flagged latest with an absent eol; and a
\* list whose element is a string instead of a release cycle
BatchBodies ==
    {[islist |-> TRUE, items |-> <<>>]}
        \cup {[islist |-> TRUE,
               items |-> <<[cycle |-> "1.0", latest |-> PyBool(TRUE),
                            releaseDate |-> PyNone, eol |-> e]>>] :
                 e \in {PyNone, PyStr("2024-02-29"), PyStr("2024-03-02"),
                        PyStr("2024-02-30")}}
        \cup {[islist |-> TRUE,
               items |-> <<[cycle |-> "9.9", latest |-> PyBool(TRUE),
                            releaseDate |-> PyNone, eol |-> PyNone]>>],
              [islist |-> TRUE, items |-> <<PyStr("1.0")>>]}

\* the arguments of _compare_versions: versions the parser accepts (one with
\* a trailing zero more, one with a leading v, one of two digits), the
\* sentinel, and strings the parser rejects: words that differ in case only,
\* a suffix after a version in both cases, a wildcard field, the empty string
VersionInputs ==
    {"1.0", "1.0.0", "v1.0", "9.9", "10", "Unknown",
     "LTS", "lts", "1.0-LTS", "1.0-lts", "1.x", "9.x", ""}

\* the arguments of _calculate_criticality: the three statuses and one that
\* is none of them; the sentinels of eol_date, a date and 'Already EOL';
\* 'N/A' and day counts on both sides of each threshold; a latest version
\* that is known or not
EolStatuses == {"EOL", "Supported", "Unknown", "Deprecated"}
EolDates == {"Already EOL", "2024-02-29", "Not specified", "Not specified (latest version)"}
DaysUntilEol ==
    {PyStr("N/A")} \cup {PyInt(n) : n \in {-3, 0, 25, 30, 31, 60, 90, 91, 200}}
LatestVersions == {"Unknown", "1.0"}

(***************************************************************************)
(* State.                                                                  *)
(***************************************************************************)
VARIABLES
    tools_data, \* the argument of check_multiple_tools
    results,    \* its list of CheckResults
    eol_info,   \* its local eol_info: what fetch_eol_data returned last
    requests,   \* the API names requested so far, in order
    clock,      \* the time, in half days after midnight of EpochDate
    call,       \* the last call of the function under study (_parse_endoflife_data
                \* in a batch): its arguments and what it returned
    pc,         \* control state
    issues      \* the issues of the tracker, issue number n at index n

vars == <<tools_data, results, eol_info, requests, clock, call, pc, issues>>

NoInfo == [status |-> "", eol_date |-> "", latest_version |-> ""]

NoCall == [data |-> NoBody, current_version |-> "", tool_name |-> "",
           now |-> Clock(0), done |-> FALSE, ret |-> NoInfo]

\* check_multiple_tools is not running
BatchIdle ==
    /\ tools_data = <<>>
    /\ results = <<>>
    /\ eol_info = NoInfo
    /\ requests = <<>>
    /\ clock = 0
    /\ issues = <<>>

(***************************************************************************)
(* _parse_endoflife_data as a function of its inputs: the inputs are drawn *)
(* in the initial state and Resolve applies it.                            *)
(***************************************************************************)
InitResolve ==
    /\ pc = "resolve"
    /\ BatchIdle
    /\ \E d \in Datasets, v \in CurrentVersions, t \in Times :
          call = [data |-> d, current_version |-> v, tool_name |-> "python",
                  now |-> t, done |-> FALSE, ret |-> NoInfo]

Resolve ==
    /\ pc = "resolve"
    /\ ~call.done
    /\ call' = [call EXCEPT
                  !.ret = _parse_endoflife_data(call.data, call.current_version,
                                                call.tool_name, call.now),
                  !.done = TRUE]
    /\ UNCHANGED <<issues, tools_data, results, eol_info, requests, clock, pc>>

NextResolve == Resolve

SpecResolve == InitResolve /\ [][NextResolve]_vars

\* the same, over the datasets that vary in releaseDate
InitLatest ==
    /\ pc = "resolve"
    /\ BatchIdle
    /\ \E d \in DatedDatasets, v \in CurrentVersions, t \in Times :
          call = [data |-> d, current_version |-> v, tool_name |-> "python",
                  now |-> t, done |-> FALSE, ret |-> NoInfo]

SpecLatest == InitLatest /\ [][NextResolve]_vars

\* the same, over the empty and the malformed bodies
InitMalformed ==
    /\ pc = "resolve"
    /\ BatchIdle
    /\ \E d \in MalformedDatasets, v \in CurrentVersions, t \in Times :
          call = [data |-> d, current_version |-> v, tool_name |-> "python",
                  now |-> t, done |-> FALSE, ret |-> NoInfo]

SpecMalformed == InitMalformed /\ [][NextResolve]_vars

(***************************************************************************)
(* _parse_endoflife_data called again on one EOLChecker.  call is the      *)
(* first call; results holds what a call with other arguments returned in  *)
(* between, and eol_info what the call with the arguments of the first one *)
(* returns when it is made again.  The method reads its arguments and the  *)
(* clock, and no attribute of self.                                        *)
(***************************************************************************)
InitRepeat ==
    /\ pc = "repeat"
    /\ BatchIdle
    /\ \E d \in BatchBodies, v \in CurrentVersions, t \in Times :
          call = [data |-> d, current_version |-> v, tool_name |-> "python",
                  now |-> t, done |-> FALSE, ret |-> NoInfo]

ResolveFirst ==
    /\ pc = "repeat"
    /\ ~call.done
    /\ call' = [call EXCEPT
                  !.ret = _parse_endoflife_data(call.data, call.current_version,
                                                call.tool_name, call.now),
                  !.done = TRUE]
    /\ UNCHANGED <<issues, tools_data, results, eol_info, requests, clock, pc>>

ResolveOther ==
    /\ pc = "repeat"
    /\ call.done
    /\ results = <<>>
    /\ eol_info = NoInfo
    /\ \E d \in BatchBodies, v \in CurrentVersions, t \in Times :
          results' = <<_parse_endoflife_data(d, v, "node.js", t)>>
    /\ UNCHANGED <<issues, tools_data, eol_info, requests, clock, call, pc>>

\* a variant in which the call returns what the call before it returned
ResolveAgain_Stale ==
    /\ pc = "repeat"
    /\ call.done
    /\ eol_info = NoInfo
    /\ eol_info' = IF results # <<>> THEN results[1]
                   ELSE _parse_endoflife_data(call.data, call.current_version,
                                              call.tool_name, call.now)
    /\ UNCHANGED <<issues, tools_data, results, requests, clock, call, pc>>

ResolveAgain ==
    /\ pc = "repeat"
    /\ call.done
    /\ eol_info = NoInfo
    /\ eol_info' = _parse_endoflife_data(call.data, call.current_version,
                                         call.tool_name, call.now)
    /\ UNCHANGED <<issues, tools_data, results, requests, clock, call, pc>>

NextRepeat ==
    \/ ResolveFirst
    \/ ResolveOther
    \/ ResolveAgain

SpecRepeat == InitRepeat /\ [][NextRepeat]_vars

(***************************************************************************)
(* _compare_versions as a function of its arguments: call holds the        *)
(* arguments and, once Compare has applied it, what it returned.           *)
(***************************************************************************)
InitCompare ==
    /\ pc = "compare"
    /\ BatchIdle
    /\ \E a \in VersionInputs, b \in VersionInputs :
          call = [v1 |-> a, v2 |-> b, done |-> FALSE, ret |-> 0]

Compare ==
    /\ pc = "compare"
    /\ ~call.done
    /\ call' = [call EXCEPT !.ret = _compare_versions(call.v1, call.v2),
                            !.done = TRUE]
    /\ UNCHANGED <<issues, tools_data, results, eol_info, requests, clock, pc>>

NextCompare == Compare

SpecCompare == InitCompare /\ [][NextCompare]_vars

(***************************************************************************)
(* _calculate_criticality as a function of its arguments: call holds the   *)
(* arguments and, once Classify has applied it, what it returned.          *)
(***************************************************************************)
InitClassify ==
    /\ pc = "classify"
    /\ BatchIdle
    /\ \E st \in EolStatuses, d \in EolDates, n \in DaysUntilEol,
          l \in LatestVersions, c \in CurrentVersions :
          call = [eol_status |-> st, eol_date |-> d, days_until_eol |-> n,
                  latest_version |-> l, current_version |-> c,
                  done |-> FALSE, ret |-> ""]

Classify ==
    /\ pc = "classify"
    /\ ~call.done
    /\ call' = [call EXCEPT
                  !.ret = _calculate_criticality(call.eol_status, call.eol_date,
                                                 call.days_until_eol,
                                                 call.latest_version,
                                                 call.current_version),
                  !.done = TRUE]
    /\ UNCHANGED <<issues, tools_data, results, eol_info, requests, clock, pc>>

NextClassify == Classify

SpecClassify == InitClassify /\ [][NextClassify]_vars

(***************************************************************************)
(* check_multiple_tools: one tool after the other, each with one request   *)
(* to the API.  Time passes while a request is outstanding.                *)
(***************************************************************************)
Init ==
    /\ tools_data \in SeqsUpTo(ToolSpecs, MaxTools)
    /\ results = <<>>
    /\ eol_info = NoInfo
    /\ requests = <<>>
    /\ clock \in 0..MaxNow
    /\ call = NoCall
    /\ pc = "loop"
    /\ issues = <<>>

\* the tool of the current iteration
Tool == tools_data[Len(results) + 1]

\* lines 267-270 and 24-27: the next tool's request is sent
SendRequest ==
    /\ pc = "loop"
    /\ Len(results) < Len(tools_data)
    /\ requests' = Append(requests, ApiToolName(Tool.name))
    /\ pc' = "fetching"
    /\ UNCHANGED <<issues, tools_data, results, eol_info, clock, call>>

\* a variant of lines 273-298 that inserts the result at the head of results
AppendResult_AtHead(info, parsed, body) ==
    /\ eol_info' = info
    /\ results' = <<CheckResult(tools_data[Len(results) + 1], info, Clock(clock))>> \o results
    /\ call' = call
    /\ pc' = "loop"
    /\ UNCHANGED <<issues, tools_data, requests, clock>>

\* lines 273-298: the rest of the iteration, info being what fetch_eol_data
\* returned; parsed tells that _parse_endoflife_data was called, on body
AppendResult(info, parsed, body) ==
    /\ eol_info' = info
    /\ results' = Append(results, CheckResult(Tool, info, Clock(clock)))
    /\ call' = IF parsed
               THEN [data |-> body, current_version |-> Tool.version,
                     tool_name |-> Tool.name, now |-> Clock(clock),
                     done |-> TRUE,
                     ret |-> _parse_endoflife_data(body, Tool.version, Tool.name,
                                                   Clock(clock))]
               ELSE call
    /\ pc' = "loop"
    /\ UNCHANGED <<issues, tools_data, requests, clock>>

\* lines 28-37 and 273-298: the iteration from the response on
FinishTool(response) ==
    AppendResult(fetch_eol_data(Tool.name, Tool.version, response, Clock(clock)),
                 ~response.error /\ response.status_code = 200, response.json)

\* the API answers 200 with a JSON body
Receive200 ==
    /\ pc = "fetching"
    /\ \E body \in BatchBodies :
          FinishTool([error |-> FALSE, status_code |-> 200, json |-> body])

\* the API answers with another status
ReceiveOther ==
    /\ pc = "fetching"
    /\ FinishTool([error |-> FALSE, status_code |-> 404, json |-> NoBody])

\* a variant in which a request that fails is sent again: the iteration
\* starts over without a result
RequestFails_Retry ==
    /\ pc = "fetching"
    /\ pc' = "loop"
    /\ UNCHANGED <<issues, tools_data, results, eol_info, requests, clock, call>>

\* the request or the decoding of its body raises
RequestFails ==
    /\ pc = "fetching"
    /\ FinishTool([error |-> TRUE, status_code |-> 0, json |-> NoBody])

\* half a day passes while the request is outstanding
Tick ==
    /\ pc = "fetching"
    /\ clock < MaxNow
    /\ clock' = clock + 1
    /\ UNCHANGED <<issues, tools_data, results, eol_info, requests, call, pc>>

\* line 300
Return ==
    /\ pc = "loop"
    /\ Len(results) = Len(tools_data)
    /\ pc' = "done"
    /\ UNCHANGED <<issues, tools_data, results, eol_info, requests, clock, call>>

Next ==
    \/ SendRequest
    \/ Receive200
    \/ ReceiveOther
    \/ RequestFails
    \/ Tick
    \/ Return

Spec == Init /\ [][Next]_vars

(***************************************************************************)
(* scripts/create_issues_python.py and scripts/issue_closer.py: the issues *)
(* of the tracker are brought in line with a report.  An issue is a record *)
(* of its title, its state, its labels and the number of its comments; the *)
(* commands of the tracker succeed.                                        *)
(***************************************************************************)
\* None, as dict.get returns it for a key that is missing
None == "<None>"

\* dict.get(key, default)
Get(d, key, default) == IF key \in DOMAIN d THEN d[key] ELSE default

StartsWith(s, p) == Len(s) >= Len(p) /\ SubSeq(s, 1, Len(p)) = p

\* sub in s
Contains(s, sub) ==
    \E i \in 1..(Len(s) - Len(sub) + 1) : SubSeq(s, i, i + Len(sub) - 1) = sub

\* the part of s before its first newline: '.' matches no newline
UpToNewline(s) ==
    IF IndexOf("\n", s) = 0 THEN s ELSE SubSeq(s, 1, IndexOf("\n", s) - 1)

\* line 340: the title of the issue of a tool
IssueTitle(tool_name, current_version, eol_status) ==
    "EOL Alert: " \o tool_name \o " " \o current_version \o " - " \o eol_status

\* line 118: the ways "(.+?) (.+?) - (.+)" matches at the start of rest, as
\* the lengths <<i, j>> of groups 1 and 2: a space after group 1, " - "
\* after group 2 and at least one character for group 3
TitleSplits(rest) ==
    UNION {{<<i, j>> : j \in {n \in 1..(Len(rest) - i - 5) :
                                SubSeq(rest, i + n + 2, i + n + 4) = " - "}} :
           i \in {n \in 1..(Len(rest) - 1) : CharAt(rest, n + 1) = " "}}

\* line 119: groups 1 and 2 are lazy, so the match the engine finds has the
\* shortest group 1 and, with that, the shortest group 2
FirstSplit(splits) ==
    CHOOSE p \in splits :
        \A q \in splits : p[1] < q[1] \/ (p[1] = q[1] /\ p[2] <= q[2])

\* lines 120-125: the groups of the match; group 3 is greedy
TitleGroups(rest, p) ==
    [tool_name |-> SubSeq(rest, 1, p[1]),
     current_version |-> SubSeq(rest, p[1] + 2, p[1] + p[2] + 1),
     old_status |-> SubSeq(rest, p[1] + p[2] + 5, Len(rest))]

\* line 126: no match
NoTitleInfo == [none |-> TRUE]

MatchSplits(rest, splits) ==
    IF splits = {} THEN NoTitleInfo ELSE TitleGroups(rest, FirstSplit(splits))

\* lines 118-119: re.match of the pattern on what follows "EOL Alert: "
MatchRest(rest) == MatchSplits(rest, TitleSplits(rest))

\* lines 115-126
parse_issue_title(title) ==
    IF StartsWith(title, "EOL Alert: ")
    THEN MatchRest(UpToNewline(SubSeq(title, 12, Len(title))))
    ELSE NoTitleInfo

\* scripts/issue_closer.py, lines 38-48: the same pattern
closer_parse_issue_title(title) ==
    IF StartsWith(title, "EOL Alert: ")
    THEN MatchRest(UpToNewline(SubSeq(title, 12, Len(title))))
    ELSE NoTitleInfo

RECURSIVE ListFrom(_, _)
\* lines 18-26: gh issue list with no --state lists the open issues only,
\* newest first; every issue of the model has "EOL Alert:" in its title, as
\* the search asks, and there are fewer of them than the 30 gh lists
ListFrom(tracker, n) ==
    IF n = 0 THEN <<>>
    ELSE IF tracker[n].state = "OPEN"
         THEN <<[number |-> n, title |-> tracker[n].title, state |-> tracker[n].state]>>
                  \o ListFrom(tracker, n - 1)
         ELSE ListFrom(tracker, n - 1)

get_existing_issues(tracker) == ListFrom(tracker, Len(tracker))

\* lines 38-60: a comment, then the issue is closed
close_issue(tracker, number) ==
    [tracker EXCEPT ![number].comments = @ + 1, ![number].state = "CLOSED"]

\* lines 62-113: a comment, then the labels 'critical', 'warning', 'low' and
\* 'info' are removed and new_criticality is added
update_issue_status(tracker, number, new_criticality) ==
    [tracker EXCEPT
        ![number].comments = @ + 1,
        ![number].labels = (@ \ {"critical", "warning", "low", "info"})
                               \cup {new_criticality}]

\* lines 128-143
should_close_issue(current_tool, old_status) ==
    \/ /\ old_status = "EOL"
       /\ current_tool.eol_status = "Supported"
       /\ Get(current_tool, "criticality", None) \notin {"high", "medium"}
    \/ Get(current_tool, "criticality", None) \in {"low", None}

\* lines 145-158
should_update_issue(current_tool, old_status) ==
    \/ current_tool.eol_status # old_status
    \/ Get(current_tool, "criticality", "medium")
           # (IF old_status = "EOL" THEN "critical" ELSE "warning")

\* lines 293 and 307
ToolKey(tool_name, current_version) == tool_name \o "_" \o current_version

\* lines 291-294 and 308: the index in current_tools of the tool under key,
\* the last one when several have it; 0 when there is none
LookUp(current_tools, key) ==
    IF \E k \in 1..Len(current_tools) :
           ToolKey(current_tools[k].tool_name, current_tools[k].current_version) = key
    THEN CHOOSE k \in 1..Len(current_tools) :
           /\ ToolKey(current_tools[k].tool_name, current_tools[k].current_version) = key
           /\ \A m \in (k + 1)..Len(current_tools) :
                 ToolKey(current_tools[m].tool_name, current_tools[m].current_version) # key
    ELSE 0

\* lines 310-329: the tool is in the report
ManageFound(tracker, number, current_tool, old_status) ==
    IF should_close_issue(current_tool, old_status)
    THEN close_issue(tracker, number)
    ELSE IF should_update_issue(current_tool, old_status)
         THEN update_issue_status(tracker, number,
                                  Get(current_tool, "criticality", "medium"))
         ELSE tracker

\* lines 303-334
ManageParsed(tracker, number, current_tools, tool_info, k) ==
    IF k # 0
    THEN ManageFound(tracker, number, current_tools[k], tool_info.old_status)
    ELSE close_issue(tracker, number)

\* lines 297-334: one issue of the list
ManageTitle(tracker, issue, current_tools, tool_info) ==
    IF tool_info = NoTitleInfo
    THEN tracker
    ELSE ManageParsed(tracker, issue.number, current_tools, tool_info,
                      LookUp(current_tools,
                             ToolKey(tool_info.tool_name, tool_info.current_version)))

ManageIssue(tracker, issue, current_tools) ==
    IF issue.state = "OPEN" /\ Contains(issue.title, "EOL Alert:")
    THEN ManageTitle(tracker, issue, current_tools, parse_issue_title(issue.title))
    ELSE tracker

RECURSIVE ManageAll(_, _, _)
\* lines 296-334: the loop over the issues listed at line 286
ManageAll(tracker, existing_issues, current_tools) ==
    IF existing_issues = <<>>
    THEN tracker
    ELSE ManageAll(ManageIssue(tracker, Head(existing_issues), current_tools),
                   Tail(existing_issues), current_tools)

\* lines 284-336
check_and_manage_existing_issues(tracker, current_tools) ==
    ManageAll(tracker, get_existing_issues(tracker), current_tools)

\* scripts/issue_closer.py, lines 204-242: the same loop, with the
\* parse_issue_title of that script
CloserTitle(tracker, issue, current_tools, tool_info) ==
    IF tool_info = NoTitleInfo
    THEN tracker
    ELSE ManageParsed(tracker, issue.number, current_tools, tool_info,
                      LookUp(current_tools,
                             ToolKey(tool_info.tool_name, tool_info.current_version)))

CloserIssue(tracker, issue, current_tools) ==
    IF issue.state = "OPEN" /\ Contains(issue.title, "EOL Alert:")
    THEN CloserTitle(tracker, issue, current_tools, closer_parse_issue_title(issue.title))
    ELSE tracker

RECURSIVE CloserAll(_, _, _)
CloserAll(tracker, existing_issues, current_tools) ==
    IF existing_issues = <<>>
    THEN tracker
    ELSE CloserAll(CloserIssue(tracker, Head(existing_issues), current_tools),
                   Tail(existing_issues), current_tools)

RECURSIVE SameTitle(_, _)
\* lines 344-353: the first listed issue with the title, 0 when none has it
SameTitle(existing_issues, issue_title) ==
    IF existing_issues = <<>> THEN 0
    ELSE IF Head(existing_issues).title = issue_title
         THEN Head(existing_issues).number
         ELSE SameTitle(Tail(existing_issues), issue_title)

\* lines 355-385: the issue is created, with the labels of line 373
NewIssue(issue_title, criticality) ==
    [title |-> issue_title, state |-> "OPEN",
     labels |-> {"eol-alert", criticality}, comments |-> 0]

\* lines 344-385, number being SameTitle of the list; the list of line 343
\* holds open issues only, so the issue found is never a closed one and the
\* branch of lines 349-353 reopens none
CreateOrReopen(tracker, number, issue_title, criticality) ==
    IF number = 0
    THEN Append(tracker, NewIssue(issue_title, criticality))
    ELSE IF tracker[number].state = "OPEN"
         THEN tracker
         ELSE [tracker EXCEPT ![number].state = "OPEN"]

\* lines 338-385
create_github_issue(tracker, tool_name, current_version, eol_status, criticality) ==
    CreateOrReopen(tracker,
                   SameTitle(get_existing_issues(tracker),
                             IssueTitle(tool_name, current_version, eol_status)),
                   IssueTitle(tool_name, current_version, eol_status),
                   criticality)

\* lines 421-422: the tools of one criticality, in the order of the report
WithCriticality(current_tools, criticality) ==
    SelectSeq(current_tools, LAMBDA tool : Get(tool, "criticality", None) = criticality)

\* lines 435 and 449: the label of the issue of a tool
LabelOf(tool) == IF Get(tool, "criticality", None) = "high" THEN "critical" ELSE "warning"

\* the tools of the reports: a tool that is EOL, about to be, supported or
\* without a criticality, and a tool whose name has a space
SyncTools ==
    {[tool_name |-> "Python", current_version |-> "1.0",
      eol_status |-> "EOL", criticality |-> "high"],
     [tool_name |-> "Python", current_version |-> "1.0",
      eol_status |-> "Supported", criticality |-> "medium"],
     [tool_name |-> "Python", current_version |-> "1.0",
      eol_status |-> "Supported", criticality |-> "low"],
     [tool_name |-> "Python", current_version |-> "1.0",
      eol_status |-> "Supported"],
     [tool_name |-> "Apache Tomcat", current_version |-> "9.0",
      eol_status |-> "EOL", criticality |-> "high"],
     [tool_name |-> "Apache Tomcat", current_version |-> "9.0",
      eol_status |-> "Supported", criticality |-> "medium"]}

\* report_data['tools']: no tool, one, or one of each name
Reports ==
    {<<>>} \cup {<<t>> : t \in SyncTools}
           \cup {<<s, t>> : s \in {x \in SyncTools : x.tool_name = "Python"},
                            t \in {x \in SyncTools : x.tool_name = "Apache Tomcat"}}

\* the names, versions and statuses a title is built of
TitleNames == {"Python", "Node.js", "Go", "Apache Tomcat", "SQL Server", "Visual Studio Code"}
TitleVersions == {"1.0", "3.11.4", "20.x", "Unknown"}
TitleStatuses == {"EOL", "Supported", "Unknown"}

(***************************************************************************)
(* The runs of the two scripts on a tracker that starts without issues.    *)
(* call holds the script of the last run, the number of runs started, the  *)
(* issues as they were when the run started and the tools of lines 428 and *)
(* 442 whose issue is still to be created; results is the report.          *)
(***************************************************************************)
InitSync ==
    /\ pc = "idle"
    /\ tools_data = <<>>
    /\ results = <<>>
    /\ eol_info = NoInfo
    /\ requests = <<>>
    /\ clock = 0
    /\ issues = <<>>
    /\ call = [script |-> "", runs |-> 0, before |-> <<>>, todo |-> <<>>]

\* create_issues_python.py, lines 387-413: main loads the latest report
LoadReport ==
    /\ pc = "idle"
    /\ call.runs < MaxRuns
    /\ \E r \in Reports : results' = r
    /\ call' = [script |-> "create_issues_python", runs |-> call.runs + 1,
                before |-> issues, todo |-> <<>>]
    /\ pc' = "manage"
    /\ UNCHANGED <<issues, tools_data, eol_info, requests, clock>>

\* lines 415-422
ManageExisting ==
    /\ pc = "manage"
    /\ issues' = check_and_manage_existing_issues(issues, results)
    /\ call' = [call EXCEPT !.todo = WithCriticality(results, "high")
                                         \o WithCriticality(results, "medium")]
    /\ pc' = "create"
    /\ UNCHANGED <<tools_data, results, eol_info, requests, clock>>

\* lines 428-452: one iteration of the loops over the critical and the
\* warning tools
CreateIssue ==
    /\ pc = "create"
    /\ call.todo # <<>>
    /\ issues' = create_github_issue(issues, Head(call.todo).tool_name,
                                     Head(call.todo).current_version,
                                     Head(call.todo).eol_status,
                                     LabelOf(Head(call.todo)))
    /\ call' = [call EXCEPT !.todo = Tail(call.todo)]
    /\ UNCHANGED <<tools_data, results, eol_info, requests, clock, pc>>

\* lines 454-458
MainReturns ==
    /\ pc = "create"
    /\ call.todo = <<>>
    /\ pc' = "idle"
    /\ UNCHANGED <<issues, tools_data, results, eol_info, requests, clock, call>>

\* issue_closer.py, lines 182-246: main
CloserMain ==
    /\ pc = "idle"
    /\ call.runs < MaxRuns
    /\ \E r \in Reports :
          /\ results' = r
          /\ issues' = CloserAll(issues, get_existing_issues(issues), r)
    /\ call' = [script |-> "issue_closer", runs |-> call.runs + 1,
                before |-> issues, todo |-> <<>>]
    /\ UNCHANGED <<tools_data, eol_info, requests, clock, pc>>

NextSync ==
    \/ LoadReport
    \/ ManageExisting
    \/ CreateIssue
    \/ MainReturns
    \/ CloserMain

SpecSync == InitSync /\ [][NextSync]_vars

(***************************************************************************)
(* The title of an issue, built and parsed again: call holds the tool and, *)
(* once ParseTitle has run, what the parse_issue_title of each script      *)
(* returned for its title.                                                 *)
(***************************************************************************)
InitTitle ==
    /\ pc = "title"
    /\ BatchIdle
    /\ \E n \in TitleNames, v \in TitleVersions, st \in TitleStatuses :
          call = [tool_name |-> n, current_version |-> v, eol_status |-> st,
                  done |-> FALSE, ret |-> NoTitleInfo, closer_ret |-> NoTitleInfo]

ParseTitle ==
    /\ pc = "title"
    /\ ~call.done
    /\ call' = [call EXCEPT
                  !.ret = parse_issue_title(
                              IssueTitle(call.tool_name, call.current_version,
                                         call.eol_status)),
                  !.closer_ret = closer_parse_issue_title(
                              IssueTitle(call.tool_name, call.current_version,
                                         call.eol_status)),
                  !.done = TRUE]
    /\ UNCHANGED <<issues, tools_data, results, eol_info, requests, clock, pc>>

NextTitle == ParseTitle

SpecTitle == InitTitle /\ [][NextTitle]_vars

(***************************************************************************)
(* The claims.  The formulas below read the last call of                   *)
(* _parse_endoflife_data: its arguments and what it returned.              *)
(***************************************************************************)
Items == call.data.items
Returned == call.done /\ call.data.islist /\ Items # <<>>

\* release i is flagged latest
Flagged(i) == Items[i].latest = PyBool(TRUE)

\* the comparator on the version strings of the model, and strptime on its
\* eol strings, as tables
VersionStrings == CurrentVersions \cup {"9.9", ""}
Compared == [a \in VersionStrings, b \in VersionStrings |-> _compare_versions(a, b)]
EolStrings == {e.s : e \in EolValues} \cup {"N/A"}
Parsed == [s \in EolStrings |-> StrpTime(s)]

\* release i compares equal to the current version
Equal(i) == Compared[Items[i].cycle, call.current_version] = 0

\* release i is the first whose cycle compares equal to the current version
MatchedAt(i) == Equal(i) /\ \A j \in 1..(i - 1) : ~Equal(j)

\* the current version is the latest one: both known and comparing equal
IsLatestCase(latest_version) ==
    /\ latest_version # "Unknown"
    /\ call.current_version # "Unknown"
    /\ Compared[call.current_version, latest_version] = 0

\* step 3 returned: the current version is above the latest one
AboveLatest == call.ret.eol_date = "Version not found (current > latest)"

\* the eol field is a string strptime accepts
IsDate(eol) == eol.kind = "str" /\ Parsed[eol.s].ok

\* the eol field is a string that is neither boolean-like nor a date
IsBadDate(eol) ==
    eol.kind = "str" /\ eol.s # "" /\ eol.s \notin {"true", "True"} /\ ~Parsed[eol.s].ok

HasDays(info) == "days_until_eol" \in DOMAIN info

\* C1 (as claimed): for a matched cycle whose eol is a parseable date the
\* status is EOL, with the date echoed and no days_until_eol, exactly when the
\* eol date is a calendar day before the day of evaluation; otherwise, also on
\* the eol day itself, it is Supported with the date echoed and a days_until_eol.
C1_StatusByCalendarDate ==
    Returned /\ ~AboveLatest =>
        \A i \in 1..Len(Items) :
            MatchedAt(i) /\ IsDate(Items[i].eol) =>
                /\ call.ret.eol_date = Items[i].eol.s
                /\ call.ret.status = "EOL" <=>
                      Parsed[Items[i].eol.s].ord < call.now.ord
                /\ call.ret.status = "EOL" => ~HasDays(call.ret)
                /\ call.ret.status # "EOL" =>
                      call.ret.status = "Supported" /\ HasDays(call.ret)

\* C2: when some cycle is flagged latest, latest_version is the cycle value
\* of the first flagged cycle, whatever the release dates and the current version.
C2_LatestIsFirstFlagged ==
    Returned =>
        \A i \in 1..Len(Items) :
            Flagged(i) /\ (\A j \in 1..(i - 1) : ~Flagged(j)) =>
                call.ret.latest_version = Items[i].cycle

\* a flagged cycle that is not the one with the newest release date
C2_Witness ==
    /\ Returned
    /\ Len(Items) = 2
    /\ Flagged(1) /\ Items[1].releaseDate = PyStr("2023-06-01")
    /\ ~Flagged(2) /\ Items[2].releaseDate = PyStr("2024-01-15")
    /\ Items[1].cycle = "1.0" /\ Items[2].cycle = "9.9"
    /\ call.ret.latest_version = "1.0"

\* C3: with latest_version and the current version both known and the
\* current version above latest_version, the result is exactly Unknown /
\* "Version not found (current > latest)" / latest_version.
C3_CurrentAboveLatest ==
    Returned =>
        LET latest_version == FindLatest(Items)
        IN  /\ latest_version # "Unknown"
            /\ call.current_version # "Unknown"
            /\ Compared[call.current_version, latest_version] = 1
            => call.ret = [status |-> "Unknown",
                           eol_date |-> "Version not found (current > latest)",
                           latest_version |-> latest_version]

\* the current version is above the flagged latest while a cycle of the
\* dataset compares equal to it and is already EOL
C3_Witness ==
    /\ Returned
    /\ call.current_version = "9.9"
    /\ \E i \in 1..Len(Items) : Flagged(i) /\ Items[i].cycle = "1.0"
    /\ \E i \in 1..Len(Items) : MatchedAt(i) /\ Items[i].eol = PyBool(TRUE)
    /\ call.ret.status = "Unknown"
    /\ AboveLatest

C5_UnparseableDate ==
    Returned /\ ~AboveLatest =>
        LET latest_version == FindLatest(Items)
        IN  \A i \in 1..Len(Items) :
               MatchedAt(i) /\ IsBadDate(Items[i].eol) =>
                  call.ret =
                     [status |-> IF IsLatestCase(latest_version)
                                 THEN "Supported" ELSE "Unknown",
                      eol_date |-> Items[i].eol.s,
                      latest_version |-> latest_version]

\* an unparseable eol reached through the general scan
C5_Witness ==
    /\ Returned
    /\ call.current_version = "1.0"
    /\ \E i \in 1..Len(Items) :
          /\ MatchedAt(i) /\ Items[i].eol = PyStr("2024-02-30")
          /\ \E j \in 1..Len(Items) : Flagged(j) /\ Items[j].cycle = "9.9"
    /\ call.ret.status = "Unknown"
    /\ call.ret.eol_date = "2024-02-30"

\* what step 4 and step 5 give for release i
AtLatest(i) ==
    InfoAtLatest(Items[i].eol, Parsed[Items[i].eol.s], FindLatest(Items), call.now)
AtScan(i) ==
    InfoAtScan(Items[i].eol, Parsed[Items[i].eol.s], FindLatest(Items), call.now)

\* the match is made in step 5: steps 3 and 4 did not return
InScan(i) ==
    /\ Returned
    /\ ~AboveLatest
    /\ ~IsLatestCase(FindLatest(Items))
    /\ MatchedAt(i)

\* C6 (as claimed): in step 5 every eol value other than an unparseable date
\* string gives the status, eol_date and days_until_eol step 4 gives for it.
C6_ScanSameAsLatest ==
    \A i \in 1..Len(Items) :
        InScan(i) /\ ~IsBadDate(Items[i].eol) =>
            call.ret = AtLatest(i)

\* C6 (amended): in step 5 a true-like eol and a parseable date give exactly
\* what step 4 gives; an absent or falsy eol gives the same status and no
\* days_until_eol but the eol_date "Not specified" instead of "Not specified
\* (latest version)"; an unparseable date string gives Unknown instead of Supported.
C6_ScanVersusLatest ==
    \A i \in 1..Len(Items) :
        InScan(i) =>
            LET atLatest == AtLatest(i)
            IN  IF IsBadDate(Items[i].eol)
                THEN call.ret = [atLatest EXCEPT !.status = "Unknown"]
                        /\ atLatest.status = "Supported"
                ELSE IF ~Truthy(Items[i].eol)
                THEN call.ret = [atLatest EXCEPT !.eol_date = "Not specified"]
                        /\ atLatest.eol_date = "Not specified (latest version)"
                ELSE call.ret = atLatest

\* a date in the future matched in the general scan
C6_Witness ==
    /\ \E i \in 1..Len(Items) : InScan(i) /\ Items[i].eol = PyStr("2024-03-02")
    /\ call.now = Clock(1)
    /\ call.ret.status = "Supported"
    /\ HasDays(call.ret)

\* C7: when step 3 does not return, the result is Unknown / "Version not
\* found" exactly when no cycle compares equal to the current version; otherwise
\* it is what step 4 or step 5 derives from the first cycle that compares equal.
C7_NotFoundIffNoMatch ==
    Returned /\ ~AboveLatest =>
        LET latest_version == FindLatest(Items)
            notFound == [status |-> "Unknown", eol_date |-> "Version not found",
                         latest_version |-> latest_version]
        IN  /\ call.ret = notFound <=> ~\E i \in 1..Len(Items) : MatchedAt(i)
            /\ \A i \in 1..Len(Items) :
                  MatchedAt(i) =>
                     /\ call.ret \in {AtLatest(i), AtScan(i)}
                     /\ call.ret.eol_date # "Version not found"

\* two cycles compare equal to the current version and the first one decides
C7_Witness ==
    /\ Returned /\ ~AboveLatest
    /\ Len(Items) = 2
    /\ call.current_version = "1.0.0"
    /\ Items[1].cycle = "1.0" /\ Items[1].eol = PyBool(TRUE)
    /\ Items[2].cycle = "1.0" /\ Items[2].eol = PyNone
    /\ call.ret.status = "EOL"

\* C9 (as claimed): a Supported result for a parseable eol date has
\* days_until_eol equal to the eol date minus today's date in calendar days,
\* whatever the time of day.
C9_CalendarDays ==
    Returned /\ ~AboveLatest =>
        \A i \in 1..Len(Items) :
            /\ MatchedAt(i) /\ IsDate(Items[i].eol)
            /\ call.ret.status = "Supported"
            => /\ HasDays(call.ret)
               /\ call.ret.days_until_eol = Parsed[Items[i].eol.s].ord - call.now.ord

\* the last CheckResult
LastResult == results[Len(results)]

\* C8: days_until_eol is an integer only for a Supported result whose
\* matched cycle has a parseable eol date that is not before now, and then it
\* is not negative; in every other outcome the EOLInfo has no days_until_eol
\* and the CheckResult has 'N/A'.
C8_DaysOnlyForFutureDate ==
    /\ \A k \in 1..Len(results) :
          IF results[k].days_until_eol.kind = "int"
          THEN /\ results[k].eol_status = "Supported"
               /\ results[k].eol_date \in EolStrings /\ Parsed[results[k].eol_date].ok
               /\ results[k].days_until_eol.n >= 0
          ELSE results[k].days_until_eol = PyStr("N/A")
    /\ results # <<>> =>
          /\ LastResult.eol_status = eol_info.status
          /\ LastResult.days_until_eol = DaysOrNA(eol_info)
          /\ HasDays(eol_info) =>
                /\ call.done /\ call.ret = eol_info
                /\ eol_info.status = "Supported"
                /\ eol_info.days_until_eol >= 0
                /\ \E i \in 1..Len(Items) :
                      /\ MatchedAt(i)
                      /\ IsDate(Items[i].eol)
                      /\ eol_info.eol_date = Items[i].eol.s
                      /\ ~DtLess(Parsed[Items[i].eol.s], call.now)
          /\ eol_info.status # "Supported" => ~HasDays(eol_info)
    /\ call.done /\ HasDays(call.ret) => call.ret.days_until_eol >= 0

\* a Supported result with a day count after a result without one
C8_Witness ==
    /\ Len(results) = 2
    /\ results[1].eol_status = "EOL" /\ results[1].days_until_eol = PyStr("N/A")
    /\ results[2].eol_status = "Supported" /\ results[2].days_until_eol = PyInt(1)
    /\ HasDays(eol_info)

\* the inputs of _calculate_criticality that C10 ranges over
EolDateTexts == {"Already EOL", "2024-02-29", "Not specified", "Not specified (latest version)"}
DayCounts == {PyStr("N/A"), PyInt(0), PyInt(25), PyInt(200)}

\* _calculate_criticality on the status EOL and every other argument
EolClassified ==
    {_calculate_criticality("EOL", d, n, l, c) :
        d \in EolDateTexts, n \in DayCounts, l \in {"Unknown", "1.0"},
        c \in CurrentVersions}

\* C10: _calculate_criticality gives high for the status EOL whatever the
\* other arguments are, and every CheckResult with eol_status EOL has
\* criticality high.
C10_EolIsHigh ==
    /\ EolClassified = {"high"}
    /\ \A k \in 1..Len(results) :
          results[k].eol_status = "EOL" => results[k].criticality = "high"

\* an EOL result for an input record that has its own criticality field, by
\* an eol date that has passed
C10_Witness ==
    /\ results # <<>>
    /\ LastResult.eol_status = "EOL"
    /\ LastResult.eol_date = "2024-02-29"
    /\ call.now = Clock(2)
    /\ tools_data[Len(results)] =
          [name |-> "Python", version |-> "1.0", criticality |-> "low"]
    /\ LastResult.criticality = "high"

(***************************************************************************)
(* The classifier.  Under SpecClassify call is a call of                   *)
(* _calculate_criticality.                                                 *)
(***************************************************************************)
\* the rule of the not-specified sentinels applies to the arguments
SentinelRule(eol_date, latest_version, current_version) ==
    /\ eol_date \in {"Not specified (latest version)", "Not specified"}
    /\ latest_version # "Unknown"
    /\ Compared[current_version, latest_version] = 0

\* C11: for Supported with an integer day count, the sentinel rule not
\* applying, the result is high up to 30 days (also for 0 and below), medium
\* from 31 to 90 and low above 90.
C11_DayThresholds ==
    /\ call.done
    /\ call.eol_status = "Supported"
    /\ call.days_until_eol.kind = "int"
    /\ ~SentinelRule(call.eol_date, call.latest_version, call.current_version)
    => call.ret = IF call.days_until_eol.n <= 30 THEN "high"
                  ELSE IF call.days_until_eol.n <= 90 THEN "medium"
                  ELSE "low"

\* the boundary 30 with a sentinel eol_date and an unknown latest version
C11_Witness ==
    /\ call.done
    /\ call.eol_status = "Supported"
    /\ call.eol_date = "Not specified"
    /\ call.latest_version = "Unknown"
    /\ call.days_until_eol = PyInt(30)
    /\ call.ret = "high"

\* C12: for Supported, a sentinel eol_date, a known latest version and a
\* current version that compares equal to it give low, whatever the day count.
C12_SentinelIsLow ==
    /\ call.done
    /\ call.eol_status = "Supported"
    /\ SentinelRule(call.eol_date, call.latest_version, call.current_version)
    => call.ret = "low"

\* the sentinel rule with a day count that alone would give high, the current
\* version being spelt differently from the latest
C12_Witness ==
    /\ call.done
    /\ call.eol_status = "Supported"
    /\ call.eol_date = "Not specified"
    /\ call.latest_version = "1.0"
    /\ call.current_version = "1.0.0"
    /\ call.days_until_eol = PyInt(25)
    /\ call.ret = "low"

\* _calculate_criticality on the arguments of the model, as a table
ClassifyArgs ==
    [eol_status : EolStatuses, eol_date : EolDates \cup {"2024-02-30"},
     days_until_eol : DaysUntilEol, latest_version : LatestVersions,
     current_version : CurrentVersions]
Classified ==
    [a \in ClassifyArgs |->
        _calculate_criticality(a.eol_status, a.eol_date, a.days_until_eol,
                               a.latest_version, a.current_version)]

\* the arguments with a status other than EOL and Supported, and those with
\* Supported, no integer day count and the sentinel rule not applying
DefaultArgs ==
    {a \in ClassifyArgs :
        \/ a.eol_status \notin {"EOL", "Supported"}
        \/ /\ a.eol_status = "Supported"
           /\ a.days_until_eol.kind # "int"
           /\ ~SentinelRule(a.eol_date, a.latest_version, a.current_version)}
DefaultClassified == {Classified[a] : a \in DefaultArgs}

\* C13: _calculate_criticality gives medium for every status other than EOL
\* and Supported, and for Supported without an integer day count when the
\* sentinel rule does not apply; every CheckResult of a failed fetch, an empty
\* dataset, a version that is not found or an eol string that is no date has
\* criticality medium.
C13_MediumByDefault ==
    /\ DefaultClassified = {"medium"}
    /\ \A k \in 1..Len(results) :
          \/ results[k].eol_status = "Unknown"
          \/ results[k].eol_date \in
                {"Check failed", "API not available", "No data available",
                 "Version not found", "2024-02-30"}
          => results[k].criticality = "medium"

\* a version that is not found, then the latest version with an eol string
\* that is no date: Unknown and Supported, both medium
C13_Witness ==
    /\ Len(results) = 2
    /\ results[1].eol_status = "Unknown"
    /\ results[1].eol_date = "Version not found"
    /\ results[1].criticality = "medium"
    /\ results[2].eol_status = "Supported"
    /\ results[2].eol_date = "2024-02-30"
    /\ results[2].days_until_eol = PyStr("N/A")
    /\ results[2].criticality = "medium"

(***************************************************************************)
(* The batch.                                                              *)
(***************************************************************************)
\* C14: check_multiple_tools keeps the order and is total: the i-th result
\* has the name and the version of the i-th input tool, and when the call
\* returns there are as many results as input tools.
C14_OrderPreservingTotal ==
    /\ Len(results) <= Len(tools_data)
    /\ \A k \in 1..Len(results) :
          /\ results[k].tool_name = tools_data[k].name
          /\ results[k].current_version = tools_data[k].version
    /\ pc = "done" => Len(results) = Len(tools_data)

\* two different tools, the lookup of the first one having failed
C14_Witness ==
    /\ pc = "done"
    /\ Len(tools_data) = 2
    /\ tools_data[1].name = "Node.js" /\ tools_data[2].name = "Python"
    /\ results[1].eol_date = "Check failed"
    /\ results[2].tool_name = "Python"

ApiNotAvailable ==
    [status |-> "Unknown", eol_date |-> "API not available", latest_version |-> "Unknown"]
CheckFailed ==
    [status |-> "Unknown", eol_date |-> "Check failed", latest_version |-> "Unknown"]

\* the API answers 200 with a list whose element is no release cycle, so that
\* _parse_endoflife_data raises
ReceiveRaising ==
    /\ pc = "fetching"
    /\ FinishTool([error |-> FALSE, status_code |-> 200,
                   json |-> [islist |-> TRUE, items |-> <<PyStr("1.0")>>]])

\* a step of a failed lookup: the EOLInfo, the result and where the batch goes
FailedLookup ==
    /\ ReceiveOther => eol_info' = ApiNotAvailable
    /\ RequestFails \/ ReceiveRaising => eol_info' = CheckFailed
    /\ ReceiveOther \/ RequestFails \/ ReceiveRaising =>
          /\ Len(results') = Len(results) + 1
          /\ results'[Len(results')].eol_status = "Unknown"
          /\ results'[Len(results')].eol_date = eol_info'.eol_date
          /\ results'[Len(results')].latest_version = "Unknown"
          /\ results'[Len(results')].criticality = "medium"
          /\ pc' = "loop"
    /\ pc' = "done" => Len(results') = Len(tools_data)

\* C15: a response that is not 200 gives the EOLInfo Unknown / "API not
\* available" / Unknown, and a fetch, a decoding or a parse that raises gives
\* Unknown / "Check failed" / Unknown; the criticality of the tool is medium,
\* the batch goes on with the next tool and returns only with a result for
\* every tool.
C15_FailureDoesNotAbort == [][FailedLookup]_vars

\* a tool checked with success after a tool whose lookup got a 404
C15_Witness ==
    /\ pc = "done"
    /\ Len(results) = 2
    /\ results[1].eol_date = "API not available"
    /\ results[2].eol_status = "Supported"
    /\ results[2].days_until_eol.kind = "int"

(***************************************************************************)
(* Malformed datasets.  Under SpecMalformed call is a call of              *)
(* _parse_endoflife_data on a body that is empty or malformed.             *)
(***************************************************************************)
\* C16 (as claimed): for every dataset that is empty, no list, or a list
\* with elements that are no release cycles, _parse_endoflife_data returns
\* Unknown / "No data available" / Unknown and does not raise.
C16_NoDataForMalformed ==
    call.done =>
        call.ret = [status |-> "Unknown", eol_date |-> "No data available",
                    latest_version |-> "Unknown"]

(***************************************************************************)
(* The comparator.  Under SpecCompare call is a call of _compare_versions. *)
(***************************************************************************)
\* C17: _compare_versions returns -1, 0 or 1, and 0 when either argument
\* is "Unknown".
C17_CompareRange ==
    call.done =>
        /\ call.ret \in {-1, 0, 1}
        /\ call.v1 = "Unknown" \/ call.v2 = "Unknown" => call.ret = 0

\* two strings the parser rejects, whose numbers differ by more than one
C17_Witness ==
    /\ call.done
    /\ call.v1 = "1.x"
    /\ call.v2 = "9.x"
    /\ call.ret = -1

\* the sets of inputs that are spellings of one version
SameVersion == {{"1.0", "1.0.0", "v1.0"}}

\* C18: _compare_versions returns 0 for two identical strings, two
\* strings that are equal ignoring case and two spellings of one version.
C18_EqualGivesZero ==
    /\ call.done
    /\ \/ call.v1 = call.v2
       \/ Lower(call.v1) = Lower(call.v2)
       \/ \E c \in SameVersion : call.v1 \in c /\ call.v2 \in c
    => call.ret = 0

\* two strings the parser rejects that differ in case only
C18_Witness ==
    /\ call.done
    /\ call.v1 = "1.0-LTS"
    /\ call.v2 = "1.0-lts"
    /\ call.ret = 0

(***************************************************************************)
(* The fields of a CheckResult.                                            *)
(***************************************************************************)
ComputedFields ==
    {"tool_name", "current_version", "eol_status", "eol_date", "days_until_eol",
     "latest_version", "criticality", "last_checked"}

\* result is the CheckResult of the input record tool, info being the
\* EOLInfo of the tool and now the time of the check
IsResultOf(result, tool, info, now) ==
    /\ DOMAIN result = ComputedFields \cup DOMAIN tool
    /\ \A f \in DOMAIN tool \ ComputedFields : result[f] = tool[f]
    /\ result.tool_name = tool.name
    /\ result.current_version = tool.version
    /\ result.eol_status = info.status
    /\ result.eol_date = info.eol_date
    /\ result.days_until_eol =
          IF HasDays(info) THEN PyInt(info.days_until_eol) ELSE PyStr("N/A")
    /\ result.latest_version = info.latest_version
    /\ result.criticality =
          _calculate_criticality(info.status, info.eol_date, result.days_until_eol,
                                 info.latest_version, tool.version)
    /\ result.last_checked = now

\* a step of the batch: the input is left as it is, and a result that is
\* appended is the CheckResult of its tool
FrameOfResult ==
    /\ tools_data' = tools_data
    /\ \A k \in 1..Len(results) : results'[k] = results[k]
    /\ Len(results') > Len(results) =>
          /\ Len(results') = Len(results) + 1
          /\ IsResultOf(results'[Len(results')], tools_data[Len(results')],
                        eol_info', Clock(clock'))

\* C19: the computed fields of a CheckResult hold the computed values also
\* when the input record has a field of the same name, the other fields of the
\* input record are copied unchanged, and the input record is not modified.
C19_ComputedFieldsWin == [][FrameOfResult]_vars

\* the result of an input record that has a criticality of its own and a
\* field that is copied, after a lookup that failed
C19_Witness ==
    /\ results # <<>>
    /\ tools_data[Len(results)] =
          [name |-> "Python", version |-> "1.0", criticality |-> "low"]
    /\ LastResult.eol_date = "API not available"
    /\ LastResult.criticality = "medium"
    /\ LastResult.name = "Python"

(***************************************************************************)
(* The latest version by release date (SpecLatest).                        *)
(***************************************************************************)
\* strptime on the releaseDate strings of the model, as a table
ReleaseDateStrings == {d.s : d \in ReleaseDates}
ParsedRelease == [d \in ReleaseDateStrings |-> StrpTime(d)]

\* release i has a releaseDate that strptime accepts
Dated(i) ==
    Items[i].releaseDate.kind = "str" /\ ParsedRelease[Items[i].releaseDate.s].ok

\* the day of the releaseDate of release i
ReleaseDay(i) == ParsedRelease[Items[i].releaseDate.s].ord

\* C20: when no cycle is flagged latest and some cycle has a parseable
\* releaseDate, latest_version is the cycle of the first cycle among those
\* with the newest parseable releaseDate.
C20_LatestByReleaseDate ==
    Returned /\ (\A j \in 1..Len(Items) : ~Flagged(j)) =>
        \A i \in 1..Len(Items) :
            /\ Dated(i)
            /\ \A j \in 1..Len(Items) : Dated(j) => ReleaseDay(j) <= ReleaseDay(i)
            /\ \A j \in 1..(i - 1) : Dated(j) => ReleaseDay(j) < ReleaseDay(i)
            => call.ret.latest_version = Items[i].cycle

\* two cycles of the same release date, neither flagged: the first one is
\* the latest
C20_Witness ==
    /\ Returned
    /\ Len(Items) = 2
    /\ ~Flagged(1) /\ ~Flagged(2)
    /\ Items[1].cycle = "9.9" /\ Items[1].releaseDate = PyStr("2024-01-15")
    /\ Items[2].cycle = "1.0" /\ Items[2].releaseDate = PyStr("2024-01-15")
    /\ call.ret.latest_version = "9.9"

(***************************************************************************)
(* The latest version that is not found.                                   *)
(***************************************************************************)
\* C21: latest_version is "Unknown" exactly when no cycle is flagged latest
\* and no cycle has a releaseDate that strptime accepts.
C21_UnknownLatest ==
    Returned =>
        (call.ret.latest_version = "Unknown"
            <=> \A i \in 1..Len(Items) : ~Flagged(i) /\ ~Dated(i))

\* no flag, and release dates that are absent or no dates
C21_Witness ==
    /\ Returned
    /\ Len(Items) = 2
    /\ ~Flagged(1) /\ Items[1].releaseDate = PyStr("2023-02-29")
    /\ ~Flagged(2) /\ Items[2].releaseDate = PyNone
    /\ call.ret.latest_version = "Unknown"

\* Scenario B: the dataset [{cycle "1.0", eol true}] and the current version "1.0"
ScenarioB ==
    [islist |-> TRUE,
     items |-> <<[cycle |-> "1.0", latest |-> PyNone, releaseDate |-> PyNone,
                  eol |-> PyBool(TRUE)]>>]
ScenarioBInfo == _parse_endoflife_data(ScenarioB, "1.0", "python", Clock(1))
ScenarioBCriticality ==
    _calculate_criticality(ScenarioBInfo.status, ScenarioBInfo.eol_date, PyStr("N/A"),
                           ScenarioBInfo.latest_version, "1.0")

\* C22: when no cycle is flagged latest and none has a releaseDate,
\* latest_version is "Unknown" and the first cycle that compares equal to the
\* current version gives the result of the scan of step 5; Scenario B gives
\* EOL / "Already EOL" / "Unknown" and the criticality high.
C22_ScanWithoutLatest ==
    /\ ScenarioBInfo = [status |-> "EOL", eol_date |-> "Already EOL",
                        latest_version |-> "Unknown"]
    /\ ScenarioBCriticality = "high"
    /\ Returned /\ (\A j \in 1..Len(Items) : ~Flagged(j) /\ Items[j].releaseDate = PyNone) =>
          /\ call.ret.latest_version = "Unknown"
          /\ \A i \in 1..Len(Items) :
                MatchedAt(i) =>
                    call.ret = InfoAtScan(Items[i].eol, Parsed[Items[i].eol.s],
                                          "Unknown", call.now)

\* Scenario B itself
C22_Witness ==
    /\ call.done
    /\ call.data = ScenarioB
    /\ call.current_version = "1.0"
    /\ call.ret = [status |-> "EOL", eol_date |-> "Already EOL",
                   latest_version |-> "Unknown"]

(***************************************************************************)
(* The requests of a batch.                                                *)
(***************************************************************************)
\* the name the API knows a tool by
ApiNames == [n \in {"Python", "Node.js"} |-> IF n = "Python" THEN "python" ELSE "nodejs"]

\* C24: one request per tool, in the order of the input: the k-th request
\* is that of the k-th tool, a request is outstanding only while its tool has
\* no result, the next one is sent only when that result is appended, and the
\* call returns with as many requests as tools.
C24_OneFetchPerTool ==
    /\ Len(requests) = Len(results) + (IF pc = "fetching" THEN 1 ELSE 0)
    /\ Len(requests) <= Len(tools_data)
    /\ \A k \in 1..Len(requests) : requests[k] = ApiNames[tools_data[k].name]
    /\ pc = "done" => Len(requests) = Len(tools_data)

\* two tools, the request of the first one having failed
C24_Witness ==
    /\ pc = "done"
    /\ requests = <<"python", "nodejs">>
    /\ results[1].eol_date = "Check failed"
    /\ results[2].eol_date = "API not available"

(***************************************************************************)
(* A tool without a version.                                               *)
(***************************************************************************)
\* C27 (as claimed): the CheckResult of a tool whose version is "Unknown"
\* has the status Unknown and the criticality medium.
C27_UnknownVersionIsMedium ==
    \A k \in 1..Len(results) :
        results[k].current_version = "Unknown" =>
            /\ results[k].eol_status = "Unknown"
            /\ results[k].criticality = "medium"

TitleInfoOfCall ==
    [tool_name |-> call.tool_name, current_version |-> call.current_version,
     old_status |-> call.eol_status]

\* C30 (as claimed): parse_issue_title, of either script, returns the tool
\* name, the version and the status the title was built of, and the key of
\* the parsed name and version is the key of the tool in the report.
C30_TitleRoundTrip ==
    pc = "title" /\ call.done =>
        /\ call.ret = TitleInfoOfCall
        /\ call.closer_ret = TitleInfoOfCall
        /\ ToolKey(call.ret.tool_name, call.ret.current_version)
               = ToolKey(call.tool_name, call.current_version)

(***************************************************************************)
(* The runs of the issue scripts (SpecSync).                               *)
(***************************************************************************)
\* the statuses of the tools of the reports
SyncStatuses == {t.eol_status : t \in SyncTools}

\* the issue is the one create_github_issue makes for tool_name and
\* current_version, whatever the status
IsIssueOf(issue, tool_name, current_version) ==
    \E st \in SyncStatuses : issue.title = IssueTitle(tool_name, current_version, st)

\* the tools, as pairs of a name and a version
SyncPairs == {<<t.tool_name, t.current_version>> : t \in SyncTools}

\* C25 (as claimed): no issue is created with the title of an issue that
\* exists, open or closed: the titles of the issues are distinct.
C25_OneIssuePerTitle ==
    \A m \in 1..Len(issues), n \in 1..Len(issues) :
        m # n => issues[m].title # issues[n].title

\* the report has the tool of issue with the criticality high or medium
StillDue(issue, report) ==
    \E k \in 1..Len(report) :
        /\ IsIssueOf(issue, report[k].tool_name, report[k].current_version)
        /\ Get(report[k], "criticality", None) \in {"high", "medium"}

\* the step from old to new closed the issue, commented it and left its
\* labels alone / commented it and left it open
ClosedOnly(old, new) ==
    new.state = "CLOSED" /\ new.comments = old.comments + 1 /\ new.labels = old.labels
UpdatedOnly(old, new) ==
    new.state = "OPEN" /\ new.comments = old.comments + 1

\* a step that is the loop over the existing issues, in either script
ManageStep ==
    \/ pc = "manage" /\ pc' = "create"
    \/ pc = "idle" /\ pc' = "idle" /\ call'.script = "issue_closer"

\* C26 (as claimed): the loop over the existing issues closes an open issue
\* exactly when the report has not its tool and version, or has them with
\* the criticality low or none; it closes no issue whose tool the report
\* has with high or medium; and it closes an issue or updates it, not both.
C26_ClosedIffResolved ==
    [][ManageStep =>
          \A n \in 1..Len(issues) :
              issues[n].state = "OPEN" =>
                  /\ issues'[n].state = "CLOSED" <=> ~StillDue(issues[n], results')
                  /\ ClosedOnly(issues[n], issues'[n]) \/ UpdatedOnly(issues[n], issues'[n])
       ]_vars

\* C28 (as claimed): a tool and version have at most one open issue.
C28_OneOpenIssuePerTool ==
    \A p \in SyncPairs :
        \A m \in 1..Len(issues), n \in 1..Len(issues) :
            /\ issues[m].state = "OPEN" /\ IsIssueOf(issues[m], p[1], p[2])
            /\ issues[n].state = "OPEN" /\ IsIssueOf(issues[n], p[1], p[2])
            => m = n

\* the issue is as create_github_issue made it for the tool: the title has
\* the status of the tool and the label is the one of its criticality
AsCreatedFor(issue, tool) ==
    /\ Get(tool, "criticality", None) \in {"high", "medium"}
    /\ issue = NewIssue(IssueTitle(tool.tool_name, tool.current_version, tool.eol_status),
                        LabelOf(tool))

\* C29 (as claimed): a run of create_issues_python.py whose report has a
\* tool with the status and the criticality it had when its open issue was
\* created leaves the issue as it was, and creates no issue for the tool.
C29_SameReportSameIssue ==
    pc = "idle" /\ call.script = "create_issues_python" =>
        \A k \in 1..Len(results), n \in 1..Len(call.before) :
            AsCreatedFor(call.before[n], results[k]) =>
                /\ issues[n] = call.before[n]
                /\ \A m \in (Len(call.before) + 1)..Len(issues) :
                      ~IsIssueOf(issues[m], results[k].tool_name,
                                 results[k].current_version)

=============================================================================
